---- MODULE Spec2Model ----
(***************************************************************************)
(* CBextBaseBundleExtension (bextutil/inc/BextBaseBundleExtension.h): the  *)
(* reference-counted base object of a bundle extension, driven by several  *)
(* host threads.  AddRef is one interlocked step; Release is an            *)
(* interlocked decrement followed by the test of the local result and the  *)
(* conditional `delete this`; QueryInterface writes the caller's slot and  *)
(* then calls AddRef.                                                      *)
(***************************************************************************)
EXTENDS Integers, Sequences, FiniteSets, TLC

(* ------------------------------ bounds -------------------------------- *)
NumThreads == 2
MaxIncrements == 2

Threads == 1..NumThreads

(* ------------------------- values of the program ---------------------- *)
S_OK == "S_OK"
E_INVALIDARG == "E_INVALIDARG"
E_NOINTERFACE == "E_NOINTERFACE"
E_NOTIMPL == "E_NOTIMPL"
E_OUTOFMEMORY == "E_OUTOFMEMORY"

IID_IUnknown == "IID_IUnknown"
IID_IBundleExtension == "IID_IBundleExtension"
IIDs == {IID_IUnknown, IID_IBundleExtension, "IID_IBootstrapperApplication"}

IsEqualIID(a, b) == a = b

\* m_cReferences is a 32-bit LONG: the interlocked operations wrap around.
\* AddRef and Release return it converted to ULONG: a negative LONG x becomes
\* x + 2^32.
InterlockedIncrement(x) == IF x = 2147483647 THEN -2147483647 - 1 ELSE x + 1
InterlockedDecrement(x) == IF x = -2147483647 - 1 THEN 2147483647 ELSE x - 1
ToULong(x) == IF x >= 0 THEN x ELSE ((x + 2147483647) + 2147483647) + 2

\* Strings are sequences of characters; a string pointer is NULL or a heap
\* block of cch characters holding the zero-terminated string wz.
DataPaths == {<<"a">>, <<"b", "a">>}
EngineCounts == {1, 2}
NullStr == [isNull |-> TRUE, cch |-> 0, wz |-> <<>>]

lstrlenW(wz) == Len(wz)

RECURSIVE StringCchCopyN(_, _)
StringCchCopyN(wzSource, cchSource) ==
    IF cchSource = 0 \/ wzSource = <<>>
    THEN <<>>
    ELSE <<Head(wzSource)>> \o StringCchCopyN(Tail(wzSource), cchSource - 1)

\* StrAllocString(&pwz, wzSource, 0): grows the block when it is too small
\* (the only step that can fail), then copies the source into it.
StrAllocString(pwz, wzSource, allocOk) ==
    LET cch == IF pwz.isNull THEN 0 ELSE pwz.cch
        cchSource == lstrlenW(wzSource)
        cchNeeded == cchSource + 1
    IN  IF cch < cchNeeded /\ ~allocOk
        THEN [hr |-> E_OUTOFMEMORY, pwz |-> pwz]
        ELSE [hr |-> S_OK,
              pwz |-> [isNull |-> FALSE,
                       cch |-> IF cch < cchNeeded THEN cchNeeded ELSE cch,
                       wz |-> StringCchCopyN(wzSource, cchSource)]]

(* ------------------------------- state -------------------------------- *)
VARIABLES
    obj,                            \* "none", "live" or "freed": the object's memory
    m_cReferences,
    m_pEngine,                      \* "NULL" or "Engine"
    m_sczBundleExtensionDataPath,
    engineRefs,                     \* the host engine's own reference count
    pc,                             \* each thread's position
    held,                           \* references each thread owns
    l,                              \* Release's local result
    ppvObject,                      \* the slot of each thread's QueryInterface in progress
    ret,                            \* the last call that returned
    R,                              \* engine count before construction
    nAddRef, nQueryOk, nRelease,    \* calls made so far
    nDestroy, nStrFree,             \* destructor runs, string frees
    misused,                        \* a call was made without owning a reference
    seen                            \* counts Release observed since the last increment

vars == <<obj, m_cReferences, m_pEngine, m_sczBundleExtensionDataPath, engineRefs,
          pc, held, l, ppvObject, ret, R, nAddRef, nQueryOk, nRelease,
          nDestroy, nStrFree, misused, seen>>

fields == <<m_cReferences, m_pEngine, m_sczBundleExtensionDataPath>>
ghost == <<R, nAddRef, nQueryOk, nRelease, nDestroy, nStrFree, misused, seen>>

\* What a call hands back: its HRESULT or count and, for QueryInterface, the
\* content of the caller's slot when it returns ("none" when no slot is involved).
Returned(op, hr, n, slot) == [op |-> op, hr |-> hr, n |-> n, slot |-> slot]

Init ==
    /\ obj = "none"
    /\ m_cReferences = 0
    /\ m_pEngine = "NULL"
    /\ m_sczBundleExtensionDataPath = NullStr
    /\ engineRefs \in EngineCounts
    /\ R = engineRefs
    /\ pc = [t \in Threads |-> "idle"]
    /\ held = [t \in Threads |-> 0]
    /\ l = [t \in Threads |-> 0]
    /\ ppvObject = [t \in Threads |-> "none"]
    /\ ret = Returned("none", "", 0, "none")
    /\ nAddRef = 0 /\ nQueryOk = 0 /\ nRelease = 0
    /\ nDestroy = 0 /\ nStrFree = 0 /\ misused = FALSE
    /\ seen = {}

(* ---------------------------- the callers ----------------------------- *)
\* A thread calls a method through a pointer it owns a reference on.  A call
\* made without one is a misuse: a Release of a reference the caller does not
\* own, or any call through a pointer to the freed object.  The model follows
\* one such call.
CanCall(t, op) ==
    /\ pc[t] = "idle"
    /\ obj # "none"
    /\ \/ held[t] > 0
       \/ ~misused /\ (op = "Release" \/ obj = "freed")

CountMisuse(t) == misused' = (misused \/ held[t] = 0)

InFlight == Cardinality({t \in Threads : pc[t] = "QueryInterface_AddRef"})

(* --------------------------- construction ----------------------------- *)
\* Constructor that takes the engine reference but does not store the pointer.
Constructor_DropsEngine(t) ==
    /\ obj = "none"
    /\ pc[t] = "idle"
    /\ obj' = "live"
    /\ m_cReferences' = 1
    /\ engineRefs' = engineRefs + 1
    /\ m_pEngine' = "NULL"
    /\ m_sczBundleExtensionDataPath' = NullStr
    /\ held' = [held EXCEPT ![t] = 1]
    /\ ret' = Returned("Constructor", "", 0, "none")
    /\ UNCHANGED <<pc, l, ppvObject, ghost>>

Constructor(t) ==
    /\ obj = "none"
    /\ pc[t] = "idle"
    /\ obj' = "live"
    /\ m_cReferences' = 1
    /\ engineRefs' = engineRefs + 1
    /\ m_pEngine' = "Engine"
    /\ m_sczBundleExtensionDataPath' = NullStr
    /\ held' = [held EXCEPT ![t] = 1]
    /\ ret' = Returned("Constructor", "", 0, "none")
    /\ UNCHANGED <<pc, l, ppvObject, ghost>>

\* Destructor that forgets ReleaseNullObject(m_pEngine).
Destructor_KeepsEngine ==
    /\ UNCHANGED <<engineRefs, m_pEngine>>
    /\ nStrFree' = IF m_sczBundleExtensionDataPath.isNull THEN nStrFree ELSE nStrFree + 1
    /\ UNCHANGED m_sczBundleExtensionDataPath
    /\ obj' = "freed"
    /\ nDestroy' = nDestroy + 1

\* Destructor that forgets ReleaseStr(m_sczBundleExtensionDataPath).
Destructor_LeaksDataPath ==
    /\ engineRefs' = IF m_pEngine # "NULL" THEN engineRefs - 1 ELSE engineRefs
    /\ m_pEngine' = "NULL"
    /\ UNCHANGED nStrFree
    /\ UNCHANGED m_sczBundleExtensionDataPath
    /\ obj' = "freed"
    /\ nDestroy' = nDestroy + 1

\* ~CBextBaseBundleExtension followed by the deallocation of `delete this`.
Destructor ==
    /\ engineRefs' = IF m_pEngine # "NULL" THEN engineRefs - 1 ELSE engineRefs
    /\ m_pEngine' = "NULL"
    /\ nStrFree' = IF m_sczBundleExtensionDataPath.isNull THEN nStrFree ELSE nStrFree + 1
    /\ UNCHANGED m_sczBundleExtensionDataPath
    /\ obj' = "freed"
    /\ nDestroy' = nDestroy + 1

(* ------------------------------ IUnknown ------------------------------ *)
\* ppv is the caller's ppvObject argument: "nullptr", or what the slot it
\* points to holds when the call is made.
SlotContents == {"junk", "NULL", "this"}
SlotArguments == {"nullptr"} \cup SlotContents

\* QueryInterface that does not clear the slot before testing riid.
QueryInterface_Begin_NoClear(t, riid, ppv) ==
    /\ CanCall(t, "QueryInterface")
    /\ CountMisuse(t)
    /\ IF ppv = "nullptr"
       THEN /\ ret' = Returned("QueryInterface", E_INVALIDARG, 0, "none")
            /\ UNCHANGED <<ppvObject, pc>>
       ELSE IF IsEqualIID(IID_IBundleExtension, riid) \/ IsEqualIID(IID_IUnknown, riid)
       THEN /\ nAddRef + nQueryOk + InFlight < MaxIncrements
            /\ ppvObject' = [ppvObject EXCEPT ![t] = "this"]
            /\ pc' = [pc EXCEPT ![t] = "QueryInterface_AddRef"]
            /\ UNCHANGED ret
       ELSE /\ ret' = Returned("QueryInterface", E_NOINTERFACE, 0, ppv)
            /\ UNCHANGED <<ppvObject, pc>>
    /\ UNCHANGED <<obj, fields, engineRefs, held, l, R, nAddRef, nQueryOk, nRelease,
                   nDestroy, nStrFree, seen>>

\* QueryInterface without the test of ppvObject: a null slot pointer is
\* treated like any other.
QueryInterface_Begin_NoNullCheck(t, riid, ppv) ==
    /\ CanCall(t, "QueryInterface")
    /\ CountMisuse(t)
    /\ IF IsEqualIID(IID_IBundleExtension, riid) \/ IsEqualIID(IID_IUnknown, riid)
       THEN /\ nAddRef + nQueryOk + InFlight < MaxIncrements
            /\ ppvObject' = [ppvObject EXCEPT ![t] = "this"]
            /\ pc' = [pc EXCEPT ![t] = "QueryInterface_AddRef"]
            /\ UNCHANGED ret
       ELSE /\ ret' = Returned("QueryInterface", E_NOINTERFACE, 0, "NULL")
            /\ UNCHANGED <<ppvObject, pc>>
    /\ UNCHANGED <<obj, fields, engineRefs, held, l, R, nAddRef, nQueryOk, nRelease,
                   nDestroy, nStrFree, seen>>

QueryInterface_Begin(t, riid, ppv) ==
    /\ CanCall(t, "QueryInterface")
    /\ CountMisuse(t)
    /\ IF ppv = "nullptr"
       THEN /\ ret' = Returned("QueryInterface", E_INVALIDARG, 0, "none")
            /\ UNCHANGED <<ppvObject, pc>>
       ELSE LET cleared == "NULL"     \* *ppvObject = NULL
            IN  IF IsEqualIID(IID_IBundleExtension, riid)
                THEN /\ nAddRef + nQueryOk + InFlight < MaxIncrements
                     /\ ppvObject' = [ppvObject EXCEPT ![t] = "this"]
                     /\ pc' = [pc EXCEPT ![t] = "QueryInterface_AddRef"]
                     /\ UNCHANGED ret
                ELSE IF IsEqualIID(IID_IUnknown, riid)
                THEN /\ nAddRef + nQueryOk + InFlight < MaxIncrements
                     /\ ppvObject' = [ppvObject EXCEPT ![t] = "this"]
                     /\ pc' = [pc EXCEPT ![t] = "QueryInterface_AddRef"]
                     /\ UNCHANGED ret
                ELSE /\ ret' = Returned("QueryInterface", E_NOINTERFACE, 0, cleared)
                     /\ UNCHANGED <<ppvObject, pc>>
    /\ UNCHANGED <<obj, fields, engineRefs, held, l, R, nAddRef, nQueryOk, nRelease,
                   nDestroy, nStrFree, seen>>

\* QueryInterface that hands out the pointer without calling AddRef.
QueryInterface_AddRef_NoAddRef(t) ==
    /\ pc[t] = "QueryInterface_AddRef"
    /\ held' = [held EXCEPT ![t] = @ + 1]
    /\ nQueryOk' = nQueryOk + 1
    /\ seen' = {}
    /\ pc' = [pc EXCEPT ![t] = "idle"]
    /\ ret' = Returned("QueryInterface", S_OK, 0, ppvObject[t])
    /\ ppvObject' = [ppvObject EXCEPT ![t] = "none"]
    /\ UNCHANGED <<obj, fields, engineRefs, l,
                   R, nAddRef, nRelease, nDestroy, nStrFree, misused>>

\* QueryInterface that takes two references for the one pointer it hands out.
QueryInterface_AddRef_Twice(t) ==
    /\ pc[t] = "QueryInterface_AddRef"
    /\ m_cReferences' = InterlockedIncrement(InterlockedIncrement(m_cReferences))
    /\ held' = [held EXCEPT ![t] = @ + 1]
    /\ nQueryOk' = nQueryOk + 1
    /\ seen' = {}
    /\ pc' = [pc EXCEPT ![t] = "idle"]
    /\ ret' = Returned("QueryInterface", S_OK, 0, ppvObject[t])
    /\ ppvObject' = [ppvObject EXCEPT ![t] = "none"]
    /\ UNCHANGED <<obj, m_pEngine, m_sczBundleExtensionDataPath, engineRefs, l,
                   R, nAddRef, nRelease, nDestroy, nStrFree, misused>>

\* QueryInterface with a plain ++m_cReferences: it stores the count it read
\* plus one, which undoes a decrement that ran in between.
QueryInterface_AddRef_NotInterlocked(t) ==
    /\ pc[t] = "QueryInterface_AddRef"
    /\ m_cReferences' = IF \E u \in Threads \ {t} : pc[u] = "Release_Test" /\ l[u] = m_cReferences
                        THEN InterlockedIncrement(InterlockedIncrement(m_cReferences))
                        ELSE InterlockedIncrement(m_cReferences)
    /\ held' = [held EXCEPT ![t] = @ + 1]
    /\ nQueryOk' = nQueryOk + 1
    /\ seen' = {}
    /\ pc' = [pc EXCEPT ![t] = "idle"]
    /\ ret' = Returned("QueryInterface", S_OK, 0, ppvObject[t])
    /\ ppvObject' = [ppvObject EXCEPT ![t] = "none"]
    /\ UNCHANGED <<obj, m_pEngine, m_sczBundleExtensionDataPath, engineRefs, l,
                   R, nAddRef, nRelease, nDestroy, nStrFree, misused>>

QueryInterface_AddRef(t) ==
    /\ pc[t] = "QueryInterface_AddRef"
    /\ m_cReferences' = InterlockedIncrement(m_cReferences)
    /\ held' = [held EXCEPT ![t] = @ + 1]
    /\ nQueryOk' = nQueryOk + 1
    /\ seen' = {}
    /\ pc' = [pc EXCEPT ![t] = "idle"]
    /\ ret' = Returned("QueryInterface", S_OK, 0, ppvObject[t])
    /\ ppvObject' = [ppvObject EXCEPT ![t] = "none"]
    /\ UNCHANGED <<obj, m_pEngine, m_sczBundleExtensionDataPath, engineRefs, l,
                   R, nAddRef, nRelease, nDestroy, nStrFree, misused>>

\* AddRef that returns the count it read instead of the incremented one.
AddRef_ReturnsOld(t, u) ==
    /\ CanCall(t, "AddRef")
    /\ CountMisuse(t)
    /\ pc[u] # "crashed"
    /\ nAddRef + nQueryOk + InFlight < MaxIncrements
    /\ m_cReferences' = InterlockedIncrement(m_cReferences)
    /\ held' = [held EXCEPT ![u] = @ + 1]
    /\ nAddRef' = nAddRef + 1
    /\ seen' = {}
    /\ ret' = Returned("AddRef", "", ToULong(m_cReferences), "none")
    /\ UNCHANGED <<obj, m_pEngine, m_sczBundleExtensionDataPath, engineRefs, pc, l,
                   ppvObject, R, nQueryOk, nRelease, nDestroy, nStrFree>>

\* AddRef that reports a new count without storing it.
AddRef_NoIncrement(t, u) ==
    /\ CanCall(t, "AddRef")
    /\ CountMisuse(t)
    /\ pc[u] # "crashed"
    /\ nAddRef + nQueryOk + InFlight < MaxIncrements
    /\ held' = [held EXCEPT ![u] = @ + 1]
    /\ nAddRef' = nAddRef + 1
    /\ seen' = {}
    /\ ret' = Returned("AddRef", "", ToULong(InterlockedIncrement(m_cReferences)), "none")
    /\ UNCHANGED <<obj, fields, engineRefs, pc, l,
                   ppvObject, R, nQueryOk, nRelease, nDestroy, nStrFree>>

\* The caller t takes the new reference for holder u (itself or the thread
\* it hands the pointer to).
AddRef(t, u) ==
    /\ CanCall(t, "AddRef")
    /\ CountMisuse(t)
    /\ pc[u] # "crashed"
    /\ nAddRef + nQueryOk + InFlight < MaxIncrements
    /\ m_cReferences' = InterlockedIncrement(m_cReferences)
    /\ held' = [held EXCEPT ![u] = @ + 1]
    /\ nAddRef' = nAddRef + 1
    /\ seen' = {}
    /\ ret' = Returned("AddRef", "", ToULong(m_cReferences'), "none")
    /\ UNCHANGED <<obj, m_pEngine, m_sczBundleExtensionDataPath, engineRefs, pc, l,
                   ppvObject, R, nQueryOk, nRelease, nDestroy, nStrFree>>

\* Release with a plain --m_cReferences: the store of a decrement that runs
\* while another Release is under way is lost.
Release_Decrement_NotInterlocked(t) ==
    /\ CanCall(t, "Release")
    /\ CountMisuse(t)
    /\ m_cReferences' = IF \E u \in Threads \ {t} : pc[u] = "Release_Test" /\ l[u] = m_cReferences
                        THEN m_cReferences
                        ELSE InterlockedDecrement(m_cReferences)
    /\ l' = [l EXCEPT ![t] = m_cReferences']
    /\ held' = [held EXCEPT ![t] = IF @ > 0 THEN @ - 1 ELSE 0]
    /\ nRelease' = nRelease + 1
    /\ seen' = seen \cup {m_cReferences'}
    /\ pc' = [pc EXCEPT ![t] = "Release_Test"]
    /\ UNCHANGED <<obj, m_pEngine, m_sczBundleExtensionDataPath, engineRefs, ppvObject,
                   ret, R, nAddRef, nQueryOk, nDestroy, nStrFree>>

Release_Decrement(t) ==
    /\ CanCall(t, "Release")
    /\ CountMisuse(t)
    /\ m_cReferences' = InterlockedDecrement(m_cReferences)
    /\ l' = [l EXCEPT ![t] = m_cReferences']
    /\ held' = [held EXCEPT ![t] = IF @ > 0 THEN @ - 1 ELSE 0]
    /\ nRelease' = nRelease + 1
    /\ seen' = seen \cup {m_cReferences'}
    /\ pc' = [pc EXCEPT ![t] = "Release_Test"]
    /\ UNCHANGED <<obj, m_pEngine, m_sczBundleExtensionDataPath, engineRefs, ppvObject,
                   ret, R, nAddRef, nQueryOk, nDestroy, nStrFree>>

\* Release that destroys the object one reference early (1 < l).
Release_Test_OffByOne(t) ==
    /\ pc[t] = "Release_Test"
    /\ IF 1 < l[t]
       THEN /\ ret' = Returned("Release", "", ToULong(l[t]), "none")
            /\ UNCHANGED <<obj, m_pEngine, m_sczBundleExtensionDataPath, engineRefs,
                           nDestroy, nStrFree>>
       ELSE /\ Destructor
            /\ ret' = Returned("Release", "", 0, "none")
    /\ pc' = [pc EXCEPT ![t] = "idle"]
    /\ l' = [l EXCEPT ![t] = 0]
    /\ UNCHANGED <<m_cReferences, held, ppvObject, R, nAddRef, nQueryOk, nRelease,
                   misused, seen>>

\* Release that returns the count but never deletes the object.
Release_Test_NeverDeletes(t) ==
    /\ pc[t] = "Release_Test"
    /\ ret' = Returned("Release", "", ToULong(IF 0 < l[t] THEN l[t] ELSE 0), "none")
    /\ pc' = [pc EXCEPT ![t] = "idle"]
    /\ l' = [l EXCEPT ![t] = 0]
    /\ UNCHANGED <<obj, m_cReferences, m_pEngine, m_sczBundleExtensionDataPath, engineRefs,
                   held, ppvObject, R, nAddRef, nQueryOk, nRelease, nDestroy, nStrFree,
                   misused, seen>>

\* Release that deletes only when the count it read is exactly zero.
Release_Test_OnlyAtZero(t) ==
    /\ pc[t] = "Release_Test"
    /\ IF l[t] # 0
       THEN /\ ret' = Returned("Release", "", IF 0 < l[t] THEN ToULong(l[t]) ELSE 0, "none")
            /\ UNCHANGED <<obj, m_pEngine, m_sczBundleExtensionDataPath, engineRefs,
                           nDestroy, nStrFree>>
       ELSE /\ Destructor
            /\ ret' = Returned("Release", "", 0, "none")
    /\ pc' = [pc EXCEPT ![t] = "idle"]
    /\ l' = [l EXCEPT ![t] = 0]
    /\ UNCHANGED <<m_cReferences, held, ppvObject, R, nAddRef, nQueryOk, nRelease,
                   misused, seen>>

Release_Test(t) ==
    /\ pc[t] = "Release_Test"
    /\ IF 0 < l[t]
       THEN /\ ret' = Returned("Release", "", ToULong(l[t]), "none")
            /\ UNCHANGED <<obj, m_pEngine, m_sczBundleExtensionDataPath, engineRefs,
                           nDestroy, nStrFree>>
       ELSE /\ Destructor
            /\ ret' = Returned("Release", "", 0, "none")
    /\ pc' = [pc EXCEPT ![t] = "idle"]
    /\ l' = [l EXCEPT ![t] = 0]
    /\ UNCHANGED <<m_cReferences, held, ppvObject, R, nAddRef, nQueryOk, nRelease,
                   misused, seen>>

(* -------------------------- IBundleExtension -------------------------- *)
SearchIds == {"id1", "id2"}
SearchVariables == {"var1"}
Messages == {"BUNDLE_EXTENSION_MESSAGE_SEARCH", "other"}
Pointers == {"nullptr", "buffer"}

\* Search that reports success and keeps a reference on the object.
Search_TakesReference(t, wzId, wzVariable) ==
    /\ CanCall(t, "Search")
    /\ CountMisuse(t)
    /\ m_cReferences' = InterlockedIncrement(m_cReferences)
    /\ ret' = Returned("Search", S_OK, 0, "none")
    /\ UNCHANGED <<obj, m_pEngine, m_sczBundleExtensionDataPath, engineRefs, pc, held, l,
                   ppvObject, R, nAddRef, nQueryOk, nRelease, nDestroy, nStrFree, seen>>

Search(t, wzId, wzVariable) ==
    /\ CanCall(t, "Search")
    /\ CountMisuse(t)
    /\ ret' = Returned("Search", E_NOTIMPL, 0, "none")
    /\ UNCHANGED <<obj, fields, engineRefs, pc, held, l, ppvObject, R, nAddRef, nQueryOk,
                   nRelease, nDestroy, nStrFree, seen>>

\* BundleExtensionProc that gives up the data path while handling a message.
BundleExtensionProc_DropsDataPath(t, message, pvArgs, pvResults, pvContext) ==
    /\ CanCall(t, "BundleExtensionProc")
    /\ CountMisuse(t)
    /\ m_sczBundleExtensionDataPath' = NullStr
    /\ ret' = Returned("BundleExtensionProc", E_NOTIMPL, 0, "none")
    /\ UNCHANGED <<obj, m_cReferences, m_pEngine, engineRefs, pc, held, l, ppvObject, R,
                   nAddRef, nQueryOk, nRelease, nDestroy, nStrFree, seen>>

\* BundleExtensionProc that keeps a reference on the object for the message.
BundleExtensionProc_TakesReference(t, message, pvArgs, pvResults, pvContext) ==
    /\ CanCall(t, "BundleExtensionProc")
    /\ CountMisuse(t)
    /\ m_cReferences' = InterlockedIncrement(m_cReferences)
    /\ ret' = Returned("BundleExtensionProc", E_NOTIMPL, 0, "none")
    /\ UNCHANGED <<obj, m_pEngine, m_sczBundleExtensionDataPath, engineRefs, pc, held, l,
                   ppvObject, R, nAddRef, nQueryOk, nRelease, nDestroy, nStrFree, seen>>

BundleExtensionProc(t, message, pvArgs, pvResults, pvContext) ==
    /\ CanCall(t, "BundleExtensionProc")
    /\ CountMisuse(t)
    /\ ret' = Returned("BundleExtensionProc", E_NOTIMPL, 0, "none")
    /\ UNCHANGED <<obj, fields, engineRefs, pc, held, l, ppvObject, R, nAddRef, nQueryOk,
                   nRelease, nDestroy, nStrFree, seen>>

(* ----------------------- CBextBaseBundleExtension --------------------- *)
\* Initialize that drops hr and always returns S_OK.
Initialize_IgnoresFailure(t, wzBundleExtensionDataPath, allocOk) ==
    /\ CanCall(t, "Initialize")
    /\ CountMisuse(t)
    /\ LET r == StrAllocString(m_sczBundleExtensionDataPath, wzBundleExtensionDataPath, allocOk)
       IN  /\ m_sczBundleExtensionDataPath' = r.pwz
           /\ ret' = Returned("Initialize", S_OK, 0, "none")
    /\ UNCHANGED <<obj, m_cReferences, m_pEngine, engineRefs, pc, held, l, ppvObject, R,
                   nAddRef, nQueryOk, nRelease, nDestroy, nStrFree, seen>>

\* Initialize that, when the copy fails, gives the engine back before returning.
Initialize_FailureReleasesEngine(t, wzBundleExtensionDataPath, allocOk) ==
    /\ CanCall(t, "Initialize")
    /\ CountMisuse(t)
    /\ LET r == StrAllocString(m_sczBundleExtensionDataPath, wzBundleExtensionDataPath, allocOk)
       IN  /\ m_sczBundleExtensionDataPath' = r.pwz
           /\ ret' = Returned("Initialize", r.hr, 0, "none")
           /\ IF r.hr # S_OK /\ m_pEngine # "NULL"
              THEN m_pEngine' = "NULL" /\ engineRefs' = engineRefs - 1
              ELSE UNCHANGED <<m_pEngine, engineRefs>>
    /\ UNCHANGED <<obj, m_cReferences, pc, held, l, ppvObject, R,
                   nAddRef, nQueryOk, nRelease, nDestroy, nStrFree, seen>>

\* Initialize that stores the path although it reports the failed allocation.
Initialize_StoresOnFailure(t, wzBundleExtensionDataPath, allocOk) ==
    /\ CanCall(t, "Initialize")
    /\ CountMisuse(t)
    /\ LET r == StrAllocString(m_sczBundleExtensionDataPath, wzBundleExtensionDataPath, allocOk)
           stored == StrAllocString(m_sczBundleExtensionDataPath, wzBundleExtensionDataPath, TRUE)
       IN  /\ m_sczBundleExtensionDataPath' = stored.pwz
           /\ ret' = Returned("Initialize", r.hr, 0, "none")
    /\ UNCHANGED <<obj, m_cReferences, m_pEngine, engineRefs, pc, held, l, ppvObject, R,
                   nAddRef, nQueryOk, nRelease, nDestroy, nStrFree, seen>>

Initialize(t, wzBundleExtensionDataPath, allocOk) ==
    /\ CanCall(t, "Initialize")
    /\ CountMisuse(t)
    /\ LET r == StrAllocString(m_sczBundleExtensionDataPath, wzBundleExtensionDataPath, allocOk)
       IN  /\ m_sczBundleExtensionDataPath' = r.pwz
           /\ ret' = Returned("Initialize", r.hr, 0, "none")
    /\ UNCHANGED <<obj, m_cReferences, m_pEngine, engineRefs, pc, held, l, ppvObject, R,
                   nAddRef, nQueryOk, nRelease, nDestroy, nStrFree, seen>>

(* ------------------- a call on the freed object ----------------------- *)
\* A method entered on freed memory either runs on the stale bytes (the
\* actions above) or faults, which ends the process.
AccessViolation(t) ==
    /\ CanCall(t, "AccessViolation")
    /\ CountMisuse(t)
    /\ obj = "freed"
    /\ pc' = [u \in Threads |-> "crashed"]
    /\ ret' = Returned("AccessViolation", "", 0, "none")
    /\ UNCHANGED <<obj, fields, engineRefs, held, l, ppvObject, R, nAddRef, nQueryOk,
                   nRelease, nDestroy, nStrFree, seen>>

Next ==
    \/ \E t \in Threads : Constructor(t)
    \/ \E t \in Threads, riid \in IIDs, ppv \in SlotArguments : QueryInterface_Begin(t, riid, ppv)
    \/ \E t \in Threads : QueryInterface_AddRef(t)
    \/ \E t \in Threads, u \in Threads : AddRef(t, u)
    \/ \E t \in Threads : Release_Decrement(t)
    \/ \E t \in Threads : Release_Test(t)
    \/ \E t \in Threads, wzId \in SearchIds, wzVariable \in SearchVariables : Search(t, wzId, wzVariable)
    \/ \E t \in Threads, message \in Messages, pvArgs \in {"buffer"}, pvResults \in {"buffer"},
          pvContext \in Pointers : BundleExtensionProc(t, message, pvArgs, pvResults, pvContext)
    \/ \E t \in Threads, wz \in DataPaths, allocOk \in BOOLEAN : Initialize(t, wz, allocOk)
    \/ \E t \in Threads : AccessViolation(t)

Spec == Init /\ [][Next]_vars


(* ------------- one caller: QueryInterface, then Release ---------------- *)
\* The object is alive with count 1 + nAddRef, the references spread over the
\* threads; one holder queries a supported interface and one holder releases.
RECURSIVE SumHeld(_, _)
SumHeld(h, S) == IF S = {} THEN 0 ELSE LET t == CHOOSE x \in S : TRUE IN h[t] + SumHeld(h, S \ {t})

InitRoundTrip ==
    /\ obj = "live"
    /\ nAddRef \in 0..(MaxIncrements - 1)
    /\ m_cReferences = 1 + nAddRef
    /\ m_pEngine = "Engine"
    /\ R \in EngineCounts
    /\ engineRefs = R + 1
    /\ m_sczBundleExtensionDataPath \in
          {NullStr} \cup {StrAllocString(NullStr, wz, TRUE).pwz : wz \in DataPaths}
    /\ pc = [t \in Threads |-> "idle"]
    /\ held \in {h \in [Threads -> 0..(1 + nAddRef)] : SumHeld(h, Threads) = 1 + nAddRef}
    /\ l = [t \in Threads |-> 0]
    /\ ppvObject = [t \in Threads |-> "none"]
    /\ ret = IF nAddRef > 0 THEN Returned("AddRef", "", m_cReferences, "none")
             ELSE IF m_sczBundleExtensionDataPath.isNull
                  THEN Returned("Constructor", "", 0, "none")
                  ELSE Returned("Initialize", S_OK, 0, "none")
    /\ nQueryOk = 0 /\ nRelease = 0
    /\ nDestroy = 0 /\ nStrFree = 0 /\ misused = FALSE
    /\ seen = {}

NextRoundTrip ==
    \/ \E t \in Threads, riid \in {IID_IUnknown, IID_IBundleExtension}, ppv \in SlotContents :
          held[t] > 0 /\ nQueryOk = 0 /\ QueryInterface_Begin(t, riid, ppv)
    \/ \E t \in Threads : QueryInterface_AddRef(t)
    \/ \E t \in Threads : held[t] > 0 /\ nQueryOk = 1 /\ nRelease = 0 /\ Release_Decrement(t)
    \/ \E t \in Threads : Release_Test(t)

SpecRoundTrip == InitRoundTrip /\ [][NextRoundTrip]_vars

(* --------------- holders that keep to the discipline ------------------ *)
\* Every call is made by a thread that owns a reference when it makes it.
NextProper ==
    \/ \E t \in Threads, riid \in IIDs, ppv \in SlotArguments :
          held[t] > 0 /\ QueryInterface_Begin(t, riid, ppv)
    \/ \E t \in Threads : QueryInterface_AddRef(t)
    \/ \E t \in Threads, u \in Threads : held[t] > 0 /\ AddRef(t, u)
    \/ \E t \in Threads : held[t] > 0 /\ Release_Decrement(t)
    \/ \E t \in Threads : Release_Test(t)
    \/ \E t \in Threads, wzId \in SearchIds, wzVariable \in SearchVariables :
          held[t] > 0 /\ Search(t, wzId, wzVariable)
    \/ \E t \in Threads, message \in Messages, pvContext \in Pointers :
          held[t] > 0 /\ BundleExtensionProc(t, message, "buffer", "buffer", pvContext)
    \/ \E t \in Threads, wz \in DataPaths, allocOk \in BOOLEAN :
          held[t] > 0 /\ Initialize(t, wz, allocOk)

\* The values the data path can have on a live object: NULL, or the result
\* of one or two successful Initialize calls.
PathsOnce == {StrAllocString(NullStr, wz, TRUE).pwz : wz \in DataPaths}
PathsTwice == {StrAllocString(p, wz, TRUE).pwz : p \in PathsOnce, wz \in DataPaths}
LivePaths == {NullStr} \cup PathsOnce \cup PathsTwice

\* The states right after a call has failed on a live object of count
\* 1 + nAddRef: an Initialize whose allocation failed, or a QueryInterface
\* that returned E_NOINTERFACE or E_INVALIDARG.
InitAfterFailure ==
    /\ obj = "live"
    /\ nAddRef \in 0..(MaxIncrements - 1)
    /\ m_cReferences = 1 + nAddRef
    /\ m_pEngine = "Engine"
    /\ R \in EngineCounts
    /\ engineRefs = R + 1
    /\ ret \in {Returned("Initialize", E_OUTOFMEMORY, 0, "none"),
                Returned("QueryInterface", E_NOINTERFACE, 0, "NULL"),
                Returned("QueryInterface", E_INVALIDARG, 0, "none")}
    /\ m_sczBundleExtensionDataPath \in
          IF ret.op = "Initialize"
          THEN {p \in LivePaths : \E wz \in DataPaths : StrAllocString(p, wz, FALSE).hr # S_OK}
          ELSE LivePaths
    /\ pc = [t \in Threads |-> "idle"]
    /\ held \in {h \in [Threads -> 0..(1 + nAddRef)] : SumHeld(h, Threads) = 1 + nAddRef}
    /\ l = [t \in Threads |-> 0]
    /\ ppvObject = [t \in Threads |-> "none"]
    /\ nQueryOk = 0 /\ nRelease = 0
    /\ nDestroy = 0 /\ nStrFree = 0 /\ misused = FALSE
    /\ seen = {}

SpecAfterFailure == InitAfterFailure /\ [][NextProper]_vars

(* ------------- holders that release what they acquired ---------------- *)
\* A call that has been entered runs on (the threads are scheduled fairly),
\* and every holder goes on to release each reference it owns.
NextFair ==
    \/ \E t \in Threads : Constructor(t)
    \/ NextProper

Fairness ==
    \A t \in Threads :
        /\ WF_vars(held[t] > 0 /\ Release_Decrement(t))
        /\ WF_vars(Release_Test(t))
        /\ WF_vars(QueryInterface_AddRef(t))

SpecFair == Init /\ [][NextFair]_vars /\ Fairness

(* ------------------------------ claims -------------------------------- *)
AllIdle == \A t \in Threads : pc[t] = "idle"
Acquired == 1 + nAddRef + nQueryOk
Supported == {IID_IUnknown, IID_IBundleExtension}
ZeroObservers == {t \in Threads : pc[t] = "Release_Test" /\ l[t] <= 0}

\* C1: when no holder releases more than it acquired, the object is destroyed
\* at most once, only when the Release calls equal 1 + AddRef calls +
\* successful QueryInterface calls, and the Release call that makes them equal
\* is the one that destroys it (it is never leaked once they are equal).
C1_DestroyedExactlyOnce ==
    ~misused =>
        /\ nDestroy <= 1
        /\ nRelease <= Acquired
        /\ (nDestroy = 1 => nRelease = Acquired /\ obj = "freed")
        /\ (obj = "live" /\ nRelease = Acquired =>
               \E t \in Threads : pc[t] = "Release_Test" /\ l[t] = 0)
        /\ (obj = "live" /\ nRelease < Acquired => ZeroObservers = {})

C1_Witness ==
    /\ ~misused /\ nDestroy = 1 /\ obj = "freed"
    /\ nAddRef >= 1 /\ nQueryOk >= 1 /\ nRelease = Acquired

\* C2: with Release calls running concurrently and every caller owning what it
\* releases, at most one call ever observes a count of 0 and that call
\* destroys the object and returns 0; every other call observes a positive
\* count that no Release since the last increment has observed, returns it and
\* destroys nothing.
C2_OneReleaseObservesZero ==
    /\ [](~misused => Cardinality(ZeroObservers) + nDestroy <= 1)
    /\ [][\A t \in Threads :
            ~misused' /\ Release_Decrement(t) => l'[t] >= 0 /\ l'[t] \notin seen]_vars
    /\ [][\A t \in Threads :
            ~misused /\ Release_Test(t) =>
                IF l[t] = 0
                THEN ret' = Returned("Release", "", 0, "none")
                     /\ obj' = "freed" /\ nDestroy' = nDestroy + 1
                ELSE l[t] > 0 /\ ret' = Returned("Release", "", l[t], "none")
                     /\ obj' = obj /\ nDestroy' = nDestroy]_vars

C2_Witness ==
    /\ ~misused
    /\ \E t, u \in Threads :
          /\ t # u
          /\ pc[t] = "Release_Test" /\ l[t] = 0
          /\ pc[u] = "Release_Test" /\ l[u] = 1

\* C3: QueryInterface on the live object with a slot and the bundle-extension
\* or the object interface id stores the object in the slot, adds exactly 1 to
\* the reference count and returns S_OK, whatever the slot held and whether
\* or not the data path is set.
C3_QueryInterfaceSupported ==
    /\ [][\A t \in Threads, riid \in Supported, ppv \in SlotContents :
            obj = "live" /\ QueryInterface_Begin(t, riid, ppv) =>
                /\ ppvObject'[t] = "this"
                /\ pc'[t] = "QueryInterface_AddRef"
                /\ m_cReferences' = m_cReferences]_vars
    /\ [][\A t \in Threads :
            obj = "live" /\ QueryInterface_AddRef(t) =>
                /\ ret' = Returned("QueryInterface", S_OK, 0, "this")
                /\ m_cReferences' = m_cReferences + 1
                /\ pc'[t] = "idle"]_vars
    /\ [](\A t \in Threads : pc[t] = "QueryInterface_AddRef" => ppvObject[t] = "this")

C3_Witness ==
    /\ obj = "live"
    /\ ret = Returned("QueryInterface", S_OK, 0, "this")
    /\ m_cReferences = 2
    /\ ~m_sczBundleExtensionDataPath.isNull

\* C4: QueryInterface on the live object with a slot and any other interface
\* id returns E_NOINTERFACE, leaves NULL in the slot whatever it held, and
\* leaves the reference count, the engine pointer and the data path unchanged.
C4_QueryInterfaceUnsupported ==
    [][\A t \in Threads, riid \in IIDs \ Supported, ppv \in SlotContents :
          obj = "live" /\ QueryInterface_Begin(t, riid, ppv) =>
              /\ ret' = Returned("QueryInterface", E_NOINTERFACE, 0, "NULL")
              /\ pc'[t] = "idle"
              /\ UNCHANGED <<m_cReferences, m_pEngine, m_sczBundleExtensionDataPath,
                             engineRefs, obj>>]_vars

C4_Witness ==
    /\ obj = "live"
    /\ ret = Returned("QueryInterface", E_NOINTERFACE, 0, "NULL")
    /\ m_cReferences = 2

\* C5: QueryInterface on the live object with a null slot pointer returns
\* E_INVALIDARG for every interface id and changes nothing of the object.
C5_QueryInterfaceNullSlot ==
    [][\A t \in Threads, riid \in IIDs :
          obj = "live" /\ QueryInterface_Begin(t, riid, "nullptr") =>
              /\ ret' = Returned("QueryInterface", E_INVALIDARG, 0, "none")
              /\ UNCHANGED <<obj, m_cReferences, m_pEngine, m_sczBundleExtensionDataPath,
                             engineRefs, pc, held, ppvObject, nQueryOk, nDestroy>>]_vars

C5_Witness ==
    /\ obj = "live"
    /\ ret = Returned("QueryInterface", E_INVALIDARG, 0, "none")
    /\ ~m_sczBundleExtensionDataPath.isNull

\* C6: the engine's count is R before construction, R + 1 (with the engine
\* pointer set) in every state in which the object is alive, and R again once
\* the object has been destroyed.
C6_EngineCount ==
    /\ (obj = "none" => engineRefs = R)
    /\ (obj = "live" => engineRefs = R + 1 /\ m_pEngine = "Engine")
    /\ (obj = "freed" /\ ~misused => engineRefs = R /\ m_pEngine = "NULL")

C6_Witness ==
    /\ obj = "freed" /\ ~misused /\ engineRefs = R
    /\ nAddRef = 2 /\ nRelease = 3

\* C7: AddRef returns the count it read plus 1; Release returns the
\* decremented count when that is positive and destroys nothing; when the
\* decremented count is 0 it returns 0 after the destructor has released the
\* engine and freed the data path (if one was set).
C7_AddRefReleaseReturn ==
    /\ [][\A t, u \in Threads :
            obj = "live" /\ AddRef(t, u) =>
                /\ ret' = Returned("AddRef", "", m_cReferences + 1, "none")
                /\ m_cReferences' = m_cReferences + 1]_vars
    /\ [][\A t \in Threads :
            ~misused' /\ Release_Decrement(t) =>
                /\ m_cReferences' = m_cReferences - 1
                /\ l'[t] = m_cReferences - 1]_vars
    /\ [][\A t \in Threads :
            ~misused /\ Release_Test(t) =>
                IF 0 < l[t]
                THEN /\ ret' = Returned("Release", "", l[t], "none")
                     /\ UNCHANGED <<obj, m_pEngine, engineRefs, nDestroy, nStrFree>>
                ELSE /\ ret' = Returned("Release", "", 0, "none")
                     /\ obj' = "freed"
                     /\ m_pEngine' = "NULL"
                     /\ engineRefs' = engineRefs - 1
                     /\ nStrFree' = IF m_sczBundleExtensionDataPath.isNull THEN 0 ELSE 1]_vars

C7_Witness ==
    /\ ~misused /\ obj = "freed"
    /\ ret = Returned("Release", "", 0, "none")
    /\ nStrFree = 1 /\ nAddRef >= 1

\* C8: Search and BundleExtensionProc return E_NOTIMPL for all arguments and
\* leave the reference count, the engine pointer, the engine's count and the
\* data path unchanged.
C8_DefaultsNotImplemented ==
    /\ [][\A t \in Threads, wzId \in SearchIds, wzVariable \in SearchVariables :
            Search(t, wzId, wzVariable) =>
                /\ ret' = Returned("Search", E_NOTIMPL, 0, "none")
                /\ UNCHANGED <<obj, m_cReferences, m_pEngine, engineRefs,
                               m_sczBundleExtensionDataPath>>]_vars
    /\ [][\A t \in Threads, message \in Messages, pvContext \in Pointers :
            BundleExtensionProc(t, message, "buffer", "buffer", pvContext) =>
                /\ ret' = Returned("BundleExtensionProc", E_NOTIMPL, 0, "none")
                /\ UNCHANGED <<obj, m_cReferences, m_pEngine, engineRefs,
                               m_sczBundleExtensionDataPath>>]_vars
    /\ [](ret.op \in {"Search", "BundleExtensionProc"} => ret.hr = E_NOTIMPL)

C8_Witness ==
    /\ obj = "live"
    /\ ret = Returned("Search", E_NOTIMPL, 0, "none")
    /\ ~m_sczBundleExtensionDataPath.isNull
    /\ m_cReferences = 2

\* C9: Initialize on the live object returns S_OK with the data path equal to
\* the string passed in, or, when the block has to grow and the allocation
\* fails, E_OUTOFMEMORY with the data path as it was; either way the
\* reference count, the engine pointer and the engine's count are unchanged.
C9_Initialize ==
    [][\A t \in Threads, wz \in DataPaths, allocOk \in BOOLEAN :
          obj = "live" /\ Initialize(t, wz, allocOk) =>
              LET grows == m_sczBundleExtensionDataPath.isNull
                           \/ m_sczBundleExtensionDataPath.cch < Len(wz) + 1
              IN  /\ IF grows /\ ~allocOk
                     THEN /\ ret' = Returned("Initialize", E_OUTOFMEMORY, 0, "none")
                          /\ UNCHANGED m_sczBundleExtensionDataPath
                     ELSE /\ ret' = Returned("Initialize", S_OK, 0, "none")
                          /\ ~m_sczBundleExtensionDataPath'.isNull
                          /\ m_sczBundleExtensionDataPath'.wz = wz
                  /\ UNCHANGED <<obj, m_cReferences, m_pEngine, engineRefs>>]_vars

C9_Witness ==
    /\ obj = "live"
    /\ ret = Returned("Initialize", E_OUTOFMEMORY, 0, "none")
    /\ m_sczBundleExtensionDataPath.wz = <<"a">>

\* C10: from a live object with count n >= 1 (n = 1: freshly constructed), a
\* successful QueryInterface followed by one Release leaves the count at n,
\* the object alive, and the engine pointer, the engine's count and the data
\* path as they were.
C10_RoundTrip ==
    /\ [](nQueryOk = 1 /\ nRelease = 1 /\ AllIdle =>
            /\ m_cReferences = 1 + nAddRef
            /\ obj = "live" /\ nDestroy = 0
            /\ ret = Returned("Release", "", m_cReferences, "none"))
    /\ [][UNCHANGED <<obj, m_pEngine, engineRefs, m_sczBundleExtensionDataPath>>]_vars

C10_Witness ==
    /\ nQueryOk = 1 /\ nRelease = 1 /\ AllIdle
    /\ nAddRef = 0 /\ m_cReferences = 1 /\ obj = "live"

\* C11 (as stated): the data path is NULL until an Initialize call has
\* succeeded and, once set, keeps its string for as long as the object is
\* alive, whatever is called on it, a further Initialize with another
\* string included.
C11_DataPathImmutable ==
    /\ [](obj = "none" => m_sczBundleExtensionDataPath.isNull)
    /\ [][obj = "live" /\ m_sczBundleExtensionDataPath.isNull
          /\ ~m_sczBundleExtensionDataPath'.isNull =>
              ret' = Returned("Initialize", S_OK, 0, "none")]_vars
    /\ [][obj = "live" /\ ~m_sczBundleExtensionDataPath.isNull =>
              /\ ~m_sczBundleExtensionDataPath'.isNull
              /\ m_sczBundleExtensionDataPath'.wz = m_sczBundleExtensionDataPath.wz]_vars

\* C11 (amended): the data path is NULL until an Initialize call has
\* succeeded; the only step that changes it is an Initialize call that
\* returns S_OK, which stores the string it was given (a repeated Initialize
\* overwrites the earlier string); no other operation changes it.
C11_DataPathSetOnlyByInitialize ==
    /\ [](obj = "none" => m_sczBundleExtensionDataPath.isNull)
    /\ [][m_sczBundleExtensionDataPath' # m_sczBundleExtensionDataPath =>
              \E t \in Threads, wz \in DataPaths, allocOk \in BOOLEAN :
                  /\ Initialize(t, wz, allocOk)
                  /\ ret' = Returned("Initialize", S_OK, 0, "none")
                  /\ ~m_sczBundleExtensionDataPath'.isNull
                  /\ m_sczBundleExtensionDataPath'.wz = wz]_vars

\* A second Initialize has overwritten <<"b", "a">> (block of 3) by <<"a">>.
C11_Witness ==
    /\ obj = "live"
    /\ ret = Returned("Initialize", S_OK, 0, "none")
    /\ m_sczBundleExtensionDataPath.wz = <<"a">>
    /\ m_sczBundleExtensionDataPath.cch = 3

FailedCall ==
    \/ \E t \in Threads, wz \in DataPaths, allocOk \in BOOLEAN :
          Initialize(t, wz, allocOk) /\ ret'.hr # S_OK
    \/ \E t \in Threads, riid \in IIDs, ppv \in SlotArguments :
          QueryInterface_Begin(t, riid, ppv) /\ pc'[t] = "idle"

\* C12: a failing Initialize or QueryInterface leaves the count, the engine
\* and the holders as they were; in every state after such a failure AddRef
\* and Release still count by one and return the new count, and the Release
\* that brings the count to zero destroys the object, once, and releases the
\* engine.
C12_ValidAfterFailure ==
    /\ [][FailedCall => UNCHANGED <<obj, m_cReferences, m_pEngine, engineRefs, held, pc,
                                     nDestroy>>]_vars
    /\ [][\A t, u \in Threads :
            AddRef(t, u) => /\ m_cReferences' = m_cReferences + 1
                            /\ ret' = Returned("AddRef", "", m_cReferences + 1, "none")]_vars
    /\ [][\A t \in Threads :
            Release_Decrement(t) => m_cReferences' = m_cReferences - 1
                                    /\ l'[t] = m_cReferences - 1]_vars
    /\ [][\A t \in Threads :
            Release_Test(t) =>
                IF 0 < l[t]
                THEN ret' = Returned("Release", "", l[t], "none")
                     /\ obj' = obj /\ nDestroy' = nDestroy
                ELSE /\ l[t] = 0 /\ nRelease = Acquired
                     /\ ret' = Returned("Release", "", 0, "none")
                     /\ obj = "live" /\ obj' = "freed"
                     /\ nDestroy' = 1
                     /\ m_pEngine' = "NULL" /\ engineRefs' = R]_vars
    /\ [](obj = "live" => m_cReferences = Acquired - nRelease
                          /\ engineRefs = R + 1 /\ m_pEngine = "Engine")
    /\ [](obj = "live" /\ nRelease = Acquired =>
              \E t \in Threads : pc[t] = "Release_Test" /\ l[t] = 0)

\* Destroyed after a failed Initialize that was never followed by a
\* successful one, with AddRef calls made after the failure.
C12_Witness ==
    /\ obj = "freed" /\ nDestroy = 1
    /\ engineRefs = R /\ m_pEngine = "NULL"
    /\ m_sczBundleExtensionDataPath.isNull /\ nStrFree = 0
    /\ nAddRef = 2 /\ nRelease = 3

\* C13: when every holder releases each reference it owns and the threads
\* are scheduled fairly, a live object is eventually destroyed, exactly once,
\* with the engine reference released and the data path (if set) freed.
C13_EventuallyDestroyed ==
    (obj = "live") ~>
        (/\ obj = "freed" /\ nDestroy = 1
         /\ m_pEngine = "NULL" /\ engineRefs = R
         /\ nStrFree = (IF m_sczBundleExtensionDataPath.isNull THEN 0 ELSE 1)
         /\ nRelease = Acquired)

C13_Witness ==
    /\ obj = "freed" /\ nDestroy = 1 /\ engineRefs = R
    /\ nStrFree = 1 /\ nAddRef = 1 /\ nQueryOk = 1 /\ nRelease = 3
    /\ AllIdle

\* C14: concurrent AddRef, Release and QueryInterface lose no update: while
\* the object's memory is live the count is 1 + a + q - r, and a
\* QueryInterface past its riid test, whatever the other threads do meanwhile,
\* raises the count by exactly one and returns S_OK with the slot set.
C14_NoLostUpdate ==
    /\ [](obj = "live" => m_cReferences = 1 + nAddRef + nQueryOk - nRelease)
    /\ [][\A t \in Threads :
            pc[t] = "QueryInterface_AddRef" /\ pc'[t] = "idle"
            => /\ m_cReferences' = m_cReferences + 1
               /\ nQueryOk' = nQueryOk + 1
               /\ ret' = Returned("QueryInterface", S_OK, 0, "this")]_vars

\* A QueryInterface has returned S_OK between another thread's decrement and
\* that thread's test of the value it read.
C14_Witness ==
    /\ obj = "live"
    /\ ret = Returned("QueryInterface", S_OK, 0, "this")
    /\ \E u \in Threads : pc[u] = "Release_Test" /\ l[u] = m_cReferences - 1
    /\ nAddRef = 1 /\ nQueryOk = 1 /\ nRelease = 1 /\ m_cReferences = 2

\* The object's state in the lifecycle: Constructed until an Initialize has
\* stored the data path, Ready from then on, Destroyed once deleted.
State ==
    IF obj = "none" THEN "Absent"
    ELSE IF obj = "freed" THEN "Destroyed"
    ELSE IF m_sczBundleExtensionDataPath.isNull THEN "Constructed"
    ELSE "Ready"

\* C15 (as stated): the object becomes Ready only by an Initialize that
\* succeeds, becomes Destroyed only by a Release whose decrement brought the
\* count to zero, and nothing leads out of Destroyed.
C15_DestroyedOnlyAtZero ==
    [][/\ State' = "Ready" => State \in {"Constructed", "Ready"}
       /\ State = "Constructed" /\ State' = "Ready"
          => ret' = Returned("Initialize", S_OK, 0, "none")
       /\ State # "Destroyed" /\ State' = "Destroyed"
          => /\ State \in {"Constructed", "Ready"}
             /\ \E t \in Threads : pc[t] = "Release_Test" /\ pc'[t] = "idle" /\ l[t] = 0
       /\ State = "Destroyed" => State' = "Destroyed"]_vars

\* C15 (amended): the object moves Constructed -> Ready -> Destroyed.  It becomes Ready
\* only by an Initialize that returns S_OK and never falls back to
\* Constructed; it becomes Destroyed, from Constructed or from Ready, only by
\* the return of a Release whose decrement did not leave a positive count,
\* which among disciplined callers is the decrement to zero by the last
\* holder; nothing leads out of Destroyed.
C15_StateMachine ==
    [][/\ State' = "Constructed" => State \in {"Absent", "Constructed"}
       /\ State' = "Ready" => State \in {"Constructed", "Ready"}
       /\ State = "Constructed" /\ State' = "Ready"
          => /\ \E t \in Threads, wz \in DataPaths, allocOk \in BOOLEAN : Initialize(t, wz, allocOk)
             /\ ret' = Returned("Initialize", S_OK, 0, "none")
       /\ State # "Destroyed" /\ State' = "Destroyed"
          => /\ State \in {"Constructed", "Ready"}
             /\ \E t \in Threads : /\ pc[t] = "Release_Test" /\ pc'[t] = "idle"
                                   /\ l[t] <= 0
                                   /\ ~misused => l[t] = 0 /\ nRelease = Acquired
             /\ ret' = Returned("Release", "", 0, "none")
       /\ State = "Destroyed" => State' = "Destroyed"]_vars

\* Destroyed from Ready, by the last of three disciplined Releases, and a
\* later call through the dangling pointer has found the object Destroyed.
C15_Witness ==
    /\ State = "Destroyed" /\ ~m_sczBundleExtensionDataPath.isNull
    /\ nDestroy = 1 /\ nRelease = Acquired /\ nRelease = 3
    /\ misused /\ ret.op \in {"Search", "Initialize"}

\* C16: from the end of construction to the start of destruction m_pEngine is
\* not null, whatever has been called; the only steps that change it are the
\* constructor, which sets it, and the destructor run by a Release, which
\* clears it as the object is deleted.
C16_EngineNeverNull ==
    /\ [](obj = "live" => m_pEngine = "Engine")
    /\ [](obj = "none" => m_pEngine = "NULL")
    /\ [][m_pEngine' # m_pEngine
          => \/ /\ obj = "none" /\ obj' = "live" /\ m_pEngine' = "Engine"
                /\ ret' = Returned("Constructor", "", 0, "none")
             \/ /\ obj = "live" /\ obj' = "freed" /\ m_pEngine' = "NULL"
                /\ nDestroy' = nDestroy + 1
                /\ \E t \in Threads : pc[t] = "Release_Test" /\ l[t] <= 0 /\ pc'[t] = "idle"]_vars

\* Still set after an AddRef, a QueryInterface, two Releases and a failed
\* Initialize.
C16_Witness ==
    /\ obj = "live" /\ m_pEngine = "Engine"
    /\ nAddRef = 1 /\ nQueryOk = 1 /\ nRelease = 2
    /\ ret = Returned("Initialize", E_OUTOFMEMORY, 0, "none")

\* The object is in use: its memory is live and no Release has yet read a
\* count that makes it run the destructor.
Alive == obj = "live" /\ ZeroObservers = {}

\* C17: the count changes only in AddRef, Release and the AddRef of a
\* successful QueryInterface, by one each time; while the object is alive and
\* nobody has released a reference it does not own, the count is at least 1
\* and equals 1 + AddRef calls + successful QueryInterface calls - Release
\* calls; Initialize, Search, BundleExtensionProc and a QueryInterface that
\* fails leave the count and the three tallies as they are.
C17_CountAccounting ==
    /\ [](Alive /\ ~misused
          => m_cReferences >= 1 /\ m_cReferences = 1 + nAddRef + nQueryOk - nRelease)
    /\ [][obj # "none" /\ m_cReferences' # m_cReferences
          => \/ /\ m_cReferences' = m_cReferences + 1 /\ nAddRef' = nAddRef + 1
                /\ nQueryOk' = nQueryOk /\ nRelease' = nRelease
                /\ ret'.op = "AddRef"
             \/ /\ m_cReferences' = m_cReferences + 1 /\ nQueryOk' = nQueryOk + 1
                /\ nAddRef' = nAddRef /\ nRelease' = nRelease
                /\ ret' = Returned("QueryInterface", S_OK, 0, "this")
             \/ /\ m_cReferences' = m_cReferences - 1 /\ nRelease' = nRelease + 1
                /\ nAddRef' = nAddRef /\ nQueryOk' = nQueryOk
                /\ \E t \in Threads : pc[t] = "idle" /\ pc'[t] = "Release_Test"]_vars
    /\ [][(ret' # ret /\ ret'.op \in {"Initialize", "Search", "BundleExtensionProc"})
          \/ (ret' # ret /\ ret'.op = "QueryInterface" /\ ret'.hr # S_OK)
          => UNCHANGED <<m_cReferences, nAddRef, nQueryOk, nRelease>>]_vars

\* Count 1 after one AddRef, one QueryInterface and two Releases, with a
\* refused QueryInterface as the last call.
C17_Witness ==
    /\ Alive /\ ~misused
    /\ nAddRef = 1 /\ nQueryOk = 1 /\ nRelease = 2 /\ m_cReferences = 1
    /\ ret = Returned("QueryInterface", E_NOINTERFACE, 0, "NULL")

\* C18: as long as every call is made by a thread that owns a reference, once
\* a Release has read the count that makes it destroy the object nothing else
\* runs on the object: no thread owns a reference or is inside QueryInterface,
\* and the only steps left are the returns of Releases already past their
\* decrement, of which one deletes the live object and the others only hand
\* back the value they read.  A call on the object after that point is
\* therefore always one made without owning a reference.
C18_NoUseAfterDestroy ==
    /\ [](~misused /\ obj # "none" /\ ~Alive
          => \A t \in Threads : /\ held[t] = 0
                                /\ pc[t] \in {"idle", "Release_Test"}
                                /\ ppvObject[t] = "none")
    /\ [][obj # "none" /\ ~Alive /\ ~misused'
          => \E t \in Threads :
                /\ pc[t] = "Release_Test" /\ pc'[t] = "idle"
                /\ UNCHANGED <<m_cReferences, m_sczBundleExtensionDataPath, ppvObject, held>>
                /\ IF 0 < l[t]
                   THEN UNCHANGED <<obj, m_pEngine, engineRefs, nDestroy, nStrFree>>
                   ELSE obj = "live" /\ nDestroy = 0 /\ obj' = "freed"]_vars

\* The object has been deleted while a Release of another thread, which read
\* a positive count, has not returned yet; everybody owned what it released.
C18_Witness ==
    /\ obj = "freed" /\ nDestroy = 1 /\ ~misused
    /\ nQueryOk >= 1
    /\ \E t \in Threads : pc[t] = "Release_Test" /\ l[t] > 0

\* C19: a Release deletes the object whenever the count it read is not
\* greater than zero, and only then; so a Release called with the count
\* already at 0 or below runs the destructor again, and more than one
\* destruction happens only when a Release was made without owning a
\* reference.
C19_DestroysAtOrBelowZero ==
    /\ [][\A t \in Threads :
            pc[t] = "Release_Test" /\ pc'[t] = "idle"
            => IF 0 < l[t]
               THEN nDestroy' = nDestroy /\ obj' = obj /\ ret'.n = l[t]
               ELSE /\ nDestroy' = nDestroy + 1 /\ obj' = "freed"
                    /\ ret' = Returned("Release", "", 0, "none")]_vars
    /\ [][nDestroy' # nDestroy
          => \E t \in Threads : pc[t] = "Release_Test" /\ pc'[t] = "idle" /\ l[t] <= 0]_vars
    /\ [](nDestroy > 1 => misused)
    /\ [](~misused => nRelease <= Acquired /\ nDestroy <= 1)

\* The destructor has run twice: the second time in a Release called with the
\* count already at 0, which read -1.
C19_Witness ==
    /\ nDestroy = 2 /\ obj = "freed" /\ misused
    /\ m_cReferences = -1 /\ nRelease = Acquired + 1
    /\ ret = Returned("Release", "", 0, "none")

\* C20: only a run of the destructor frees the data path or releases the
\* engine reference; each run frees the string once if the field is set and
\* not at all if it is null, and releases the engine if m_pEngine is set; so
\* among disciplined callers a destroyed object has given back the engine
\* exactly once and freed its string once if an Initialize had stored one and
\* never otherwise, and a live object has done neither.
C20_FreedByDestructorOnly ==
    /\ [][obj # "none" /\ (nStrFree' # nStrFree \/ engineRefs' # engineRefs
                            \/ m_pEngine' # m_pEngine)
          => /\ nDestroy' = nDestroy + 1
             /\ \E t \in Threads : pc[t] = "Release_Test" /\ pc'[t] = "idle" /\ l[t] <= 0]_vars
    /\ [][nDestroy' # nDestroy
          => /\ nStrFree' = nStrFree + (IF m_sczBundleExtensionDataPath.isNull THEN 0 ELSE 1)
             /\ engineRefs' = engineRefs - (IF m_pEngine = "Engine" THEN 1 ELSE 0)
             /\ m_pEngine' = "NULL"
             /\ obj = "live" => engineRefs = R + 1 /\ engineRefs' = R /\ nStrFree = 0]_vars
    /\ [](obj = "live" => nStrFree = 0 /\ engineRefs = R + 1 /\ nDestroy = 0)
    /\ [](obj = "freed" => engineRefs = R)
    /\ [](obj = "freed" /\ ~misused
          => /\ nDestroy = 1
             /\ nStrFree = (IF m_sczBundleExtensionDataPath.isNull THEN 0 ELSE 1))

\* Destroyed without a data path: nothing freed, the engine given back.
C20_Witness ==
    /\ obj = "freed" /\ ~misused /\ nDestroy = 1
    /\ m_sczBundleExtensionDataPath.isNull /\ nStrFree = 0
    /\ engineRefs = R /\ m_pEngine = "NULL"
    /\ nQueryOk = 1 /\ nAddRef = 0 /\ AllIdle

====
